---------------------------- MODULE Spec2Model ----------------------------
(***************************************************************************)
(* Streaming frame scanner, packet body decoder, record builder and stream *)
(* driver of the Miniware MDP-M01 telemetry parser                         *)
(* (py/mdp_m01/parser.py and the Kaitai decoder py/miniware_mdp_m01.py),   *)
(* together with the capture loop of py/miniware-marimo.py that feeds it.  *)
(*                                                                         *)
(* Byte strings are sequences over 0..255.  Offsets named i, pos, lo, hi   *)
(* are the 0-based offsets of the Python code; b[i + 1] is Python's b[i].  *)
(***************************************************************************)
EXTENDS Integers, Sequences, FiniteSets

VARIABLES
    stream,     \* the bytes the serial link will deliver, in order
    fed,        \* how many bytes of stream ser.read() has delivered so far
    reads,      \* history: the size of every ser.read() so far, in order
    buf,        \* capture_mdp01_data's buf: remainder + bytes read
    out,        \* capture_mdp01_data's packets: every record handed back
    pc,         \* "idle" | "loop" | "ret" | "aborted"
    memorybuf,  \* parse_buffer's memorybuf
    packets,    \* parse_buffer's packets
    last_len,   \* parse_buffer's last_len
    parsed,     \* parse_buffer's parsed (second result of the last scan)
    prev,       \* history: memorybuf as it was handed to the last scan
    prev_packets, \* history: packets as it was before the last scan
    iters,      \* history: scanner invocations in the current call
    frames_sw,  \* history: Synthesize and Wave frames scanned in the current call
    spans,      \* history: for every element appended to packets since the
                \* capture began, where its frame lies in stream: [lo, hi)
    tick_after, \* the wall clock advances right after its tick_after-th reading
                \* of the run (0: not while the run lasts)
    now_calls   \* how many times datetime.datetime.now() has been read so far

vars == <<stream, fed, reads, buf, out, pc, memorybuf, packets, last_len,
          parsed, prev, prev_packets, iters, frames_sw, spans, tick_after,
          now_calls>>

\* Number of parse_buffer calls started: one per read.
calls == Len(reads)

-----------------------------------------------------------------------------
(* Values *)

\* Python's None, wherever the code produces it.
None == [kind |-> "None"]

\* A value of a Python Enum class: member = TRUE for a member of the class,
\* FALSE for a bare integer that resolve_enum left as it was.
EnumMember(v) == [member |-> TRUE, v |-> v]

EnumLiteral(v) == [member |-> FALSE, v |-> v]

MAGIC == 90

PackTypeValues == (17..34) \cup {240}

PackType_synthesize == EnumMember(17)

PackType_wave == EnumMember(18)

MachineTypeValues == 0..3

MachineType_node == EnumMember(0)

MachineType_l1060 == EnumMember(3)

L1060TypeValues == 0..3

P906TypeValues == 0..3

\* datetime.datetime.now() on its k-th reading of the run: the wall clock is
\* at 0 when the run starts and never goes back.
now(k) == IF tick_after > 0 /\ k > tick_after THEN 1 ELSE 0

\* KaitaiStream.resolve_enum: enum_obj(value), and on ValueError the value itself.
resolve_enum(values, v) == IF v \in values THEN EnumMember(v) ELSE EnumLiteral(v)

-----------------------------------------------------------------------------
(* Byte-string helpers *)

Min(a, b) == IF a < b THEN a ELSE b

\* Python's b[lo:hi] for 0 <= lo.
Slice(b, lo, hi) == SubSeq(b, lo + 1, Min(hi, Len(b)))

\* Python's b[lo:] for 0 <= lo.
SliceFrom(b, lo) == SubSeq(b, lo + 1, Len(b))

\* KaitaiStream.read_u1 / read_u2le / read_u4le at offset pos (the caller has
\* checked that the bytes are there).
read_u1(b, pos) == b[pos + 1]

read_u2le(b, pos) == b[pos + 1] + 256 * b[pos + 2]

read_u4le(b, pos) ==
    b[pos + 1] + 256 * b[pos + 2] + 65536 * b[pos + 3] + 16777216 * b[pos + 4]

\* raw / 1000.0 and raw / 10.0: the quotient kept as an exact fraction.
Scaled(raw, den) == [num |-> raw, den |-> den]

-----------------------------------------------------------------------------
(* Packet body decoder: the Kaitai classes of miniware_mdp_m01.py.  A read  *)
(* past the end of its stream raises (EOFError); a failed decode is         *)
(* [ok |-> FALSE], whatever the exception.                                  *)

Fail == [ok |-> FALSE]

CHAN_COUNT == 6

CHAN_BYTES == 25

GROUP_COUNT == 10

\* MiniwareMdpM01.Synthesize.Chan._read on raw at offset off.  Exactly one of
\* status_load / status_psu is read (and exists as an attribute).
Chan(raw, off) ==
    IF off + CHAN_BYTES > Len(raw) THEN Fail
    ELSE LET type == resolve_enum(MachineTypeValues, read_u1(raw, off + 16))
             st   == read_u1(raw, off + 18)
         IN [ok              |-> TRUE,
             num             |-> read_u1(raw, off),
             out_voltage_raw |-> read_u2le(raw, off + 1),
             out_current_raw |-> read_u2le(raw, off + 3),
             in_voltage_raw  |-> read_u2le(raw, off + 5),
             in_current_raw  |-> read_u2le(raw, off + 7),
             set_voltage_raw |-> read_u2le(raw, off + 9),
             set_current_raw |-> read_u2le(raw, off + 11),
             temp_raw        |-> read_u2le(raw, off + 13),
             online          |-> read_u1(raw, off + 15),
             type            |-> type,
             lock            |-> read_u1(raw, off + 17),
             has_status_load |-> (type = MachineType_l1060),
             status_load     |-> IF type = MachineType_l1060
                                 THEN resolve_enum(L1060TypeValues, st) ELSE None,
             has_status_psu  |-> (type # MachineType_l1060),
             status_psu      |-> IF type # MachineType_l1060
                                 THEN resolve_enum(P906TypeValues, st) ELSE None,
             output_on       |-> read_u1(raw, off + 19),
             color           |-> Slice(raw, off + 20, off + 23),
             error           |-> read_u1(raw, off + 23),
             end             |-> Slice(raw, off + 24, off + 25)]

\* list.append in a reading loop: the element x just read, then the rest of
\* the loop; the first read that raises ends it.
Appended(x, rest) ==
    IF ~x.ok THEN Fail
    ELSE IF ~rest.ok THEN Fail
    ELSE [ok |-> TRUE, items |-> <<x>> \o rest.items]

\* for i in range(n): self.channels.append(Chan(...)), reading from offset off.
RECURSIVE ReadChans(_, _, _)
ReadChans(raw, off, n) ==
    IF n = 0 THEN [ok |-> TRUE, items |-> <<>>]
    ELSE Appended(Chan(raw, off), ReadChans(raw, off + CHAN_BYTES, n - 1))

\* The Synthesize object once its channels cs are read.
SynthesizeOf(raw, cs) ==
    IF ~cs.ok THEN Fail
    ELSE [ok       |-> TRUE,
          kind     |-> "Synthesize",
          channel  |-> read_u1(raw, 0),
          dummy    |-> read_u1(raw, 1),
          channels |-> cs.items]

\* MiniwareMdpM01.Synthesize._read on the payload raw.
SynthesizeRead(raw) ==
    IF Len(raw) < 2 THEN Fail
    ELSE SynthesizeOf(raw, ReadChans(raw, 2, CHAN_COUNT))

\* Mutant: the two known sizes give each other's item count.
group_size_Swapped(size) == IF size = 126 THEN 4 ELSE IF size = 206 THEN 2 ELSE 0

\* MiniwareMdpM01.Wave.group_size, from the enclosing packet's size byte.
group_size(size) == IF size = 126 THEN 2 ELSE IF size = 206 THEN 4 ELSE 0

\* MiniwareMdpM01.Wave.Item._read at offset off.
Item(raw, off) ==
    IF off + 4 > Len(raw) THEN Fail
    ELSE [ok          |-> TRUE,
          voltage_raw |-> read_u2le(raw, off),
          current_raw |-> read_u2le(raw, off + 2)]

\* for i in range(n): self.items.append(Item(...)), reading from offset off.
RECURSIVE ReadItems(_, _, _)
ReadItems(raw, off, n) ==
    IF n = 0 THEN [ok |-> TRUE, items |-> <<>>]
    ELSE Appended(Item(raw, off), ReadItems(raw, off + 4, n - 1))

\* The Group object once its items its are read.
GroupOf(raw, off, its) ==
    IF ~its.ok THEN Fail
    ELSE [ok |-> TRUE, timestamp |-> read_u4le(raw, off), items |-> its.items]

\* MiniwareMdpM01.Wave.Group._read at offset off, gs items per group.
Group(raw, off, gs) ==
    IF off + 4 > Len(raw) THEN Fail
    ELSE GroupOf(raw, off, ReadItems(raw, off + 4, gs))

\* for i in range(n): self.groups.append(Group(...)), reading from offset off.
RECURSIVE ReadGroups(_, _, _, _)
ReadGroups(raw, off, gs, n) ==
    IF n = 0 THEN [ok |-> TRUE, items |-> <<>>]
    ELSE Appended(Group(raw, off, gs),
                  ReadGroups(raw, off + 4 + 4 * gs, gs, n - 1))

\* The Wave object once its groups gs are read.
WaveOf(raw, gs) ==
    IF ~gs.ok THEN Fail
    ELSE [ok      |-> TRUE,
          kind    |-> "Wave",
          channel |-> read_u1(raw, 0),
          dummy   |-> read_u1(raw, 1),
          groups  |-> gs.items]

\* MiniwareMdpM01.Wave._read on the payload raw of a packet of the given size.
WaveRead(raw, size) ==
    IF Len(raw) < 2 THEN Fail
    ELSE WaveOf(raw, ReadGroups(raw, 2, group_size(size), GROUP_COUNT))

\* MiniwareMdpM01.Packet._read on stream b at offset pos; next is the offset
\* after the packet.  read_bytes(size - 4) raises on a negative count and on
\* too few bytes left.
\* The switch on pack_type: the data attribute for the payload raw.
PacketData(pack_type, size, raw) ==
    IF pack_type = PackType_wave THEN WaveRead(raw, size)
    ELSE IF pack_type = PackType_synthesize THEN SynthesizeRead(raw)
    ELSE [ok |-> TRUE, kind |-> "bytes", bytes |-> raw]

\* The Packet object once its data is read.
PacketOf(pack_type, size, data, next) ==
    IF ~data.ok THEN Fail
    ELSE [ok        |-> TRUE,
          pack_type |-> pack_type,
          size      |-> size,
          data      |-> data,
          next      |-> next]

Packet(b, pos) ==
    IF pos + 2 > Len(b) THEN Fail
    ELSE IF Slice(b, pos, pos + 2) # <<MAGIC, MAGIC>> THEN Fail
    ELSE IF pos + 4 > Len(b) THEN Fail
    ELSE LET pack_type == resolve_enum(PackTypeValues, read_u1(b, pos + 2))
             size      == read_u1(b, pos + 3)
             n         == size - 4
         IN IF n < 0 \/ pos + 4 + n > Len(b) THEN Fail
            ELSE PacketOf(pack_type, size,
                          PacketData(pack_type, size,
                                     Slice(b, pos + 4, pos + 4 + n)),
                          pos + 4 + n)

\* MiniwareMdpM01._read: while not self._io.is_eof(): append a Packet.
RECURSIVE ReadPackets(_, _)
\* The loop from the packet p just read.
ReadPacketsFrom(b, p) ==
    IF ~p.ok THEN Fail ELSE Appended(p, ReadPackets(b, p.next))

ReadPackets(b, pos) ==
    IF pos >= Len(b) THEN [ok |-> TRUE, items |-> <<>>]
    ELSE ReadPacketsFrom(b, Packet(b, pos))

\* The root object once its packets ps are read.
RootOf(ps) ==
    IF ~ps.ok THEN Fail
    ELSE [ok |-> TRUE, kind |-> "MiniwareMdpM01", packets |-> ps.items]

\* MiniwareMdpM01(KaitaiStream(io.BytesIO(b))): the root object, or Fail when the
\* constructor raises.
MiniwareMdpM01(b) == RootOf(ReadPackets(b, 0))

-----------------------------------------------------------------------------
(* Semantic record builder: process_packet and the dataclasses of parser.py *)

\* Chan.temperature and the other scaled properties of the Kaitai classes.
temperature(c) == Scaled(c.temp_raw, 10)

milli(raw) == Scaled(raw, 1000)

\* Mutant: the builder copies the load-mode status only.
Channel_LoadOnly(index, c, t) ==
    [channel_index |-> index,
     timestamp_received |-> t,
     temperature   |-> temperature(c),
     out_voltage   |-> milli(c.out_voltage_raw),
     out_current   |-> milli(c.out_current_raw),
     in_voltage    |-> milli(c.in_voltage_raw),
     in_current    |-> milli(c.in_current_raw),
     set_voltage   |-> milli(c.set_voltage_raw),
     set_current   |-> milli(c.set_current_raw),
     online        |-> c.online,
     lock          |-> c.lock,
     output_on     |-> c.output_on,
     machine_type  |-> c.type,
     status_load   |-> IF c.has_status_load THEN c.status_load ELSE None,
     status_psu    |-> None,
     error         |-> c.error]

\* Channel(channel_index=index, timestamp_received=t, ...) for slot c.
Channel(index, c, t) ==
    [channel_index |-> index,
     timestamp_received |-> t,
     temperature   |-> temperature(c),
     out_voltage   |-> milli(c.out_voltage_raw),
     out_current   |-> milli(c.out_current_raw),
     in_voltage    |-> milli(c.in_voltage_raw),
     in_current    |-> milli(c.in_current_raw),
     set_voltage   |-> milli(c.set_voltage_raw),
     set_current   |-> milli(c.set_current_raw),
     online        |-> c.online,
     lock          |-> c.lock,
     output_on     |-> c.output_on,
     machine_type  |-> c.type,
     status_load   |-> IF c.has_status_load THEN c.status_load ELSE None,
     status_psu    |-> IF c.has_status_psu THEN c.status_psu ELSE None,
     error         |-> c.error]

\* Mutant: channel_index is the slot's own slot number byte.
RECURSIVE BuildChannels_SlotNumber(_, _, _)
BuildChannels_SlotNumber(cs, k, n) ==
    IF k > Len(cs) THEN <<>>
    ELSE IF cs[k].type = MachineType_node THEN BuildChannels_SlotNumber(cs, k + 1, n)
    ELSE <<Channel(cs[k].num, cs[k], now(n + 1))>>
             \o BuildChannels_SlotNumber(cs, k + 1, n + 1)

\* for index, c in enumerate(channels): skip MachineType.node, append Channel.
\* index is the 0-based position of cs[k] in the slot list; n is how many
\* times the clock has been read before, and every Channel built reads it once
\* more (the keyword argument timestamp_received=datetime.datetime.now()).
RECURSIVE BuildChannels(_, _, _)
BuildChannels(cs, k, n) ==
    IF k > Len(cs) THEN <<>>
    ELSE IF cs[k].type = MachineType_node THEN BuildChannels(cs, k + 1, n)
    ELSE <<Channel(k - 1, cs[k], now(n + 1))>> \o BuildChannels(cs, k + 1, n + 1)

WaveItem(i) == [voltage |-> milli(i.voltage_raw), current |-> milli(i.current_raw)]

\* WaveGroup(timestamp=g.timestamp, timestamp_received=t, items=[...]).
WaveGroup(g, t) ==
    [timestamp          |-> g.timestamp,
     timestamp_received |-> t,
     items              |-> [j \in 1..Len(g.items) |-> WaveItem(g.items[j])]]

\* process_packet(p), the clock read n times before.  Every WaveGroup built
\* reads the clock once more.  The last line of the function asserts a
\* (truthy) exception object, so an unknown pack type falls through and
\* returns None.
process_packet(p, n) ==
    IF p.pack_type = PackType_wave
    THEN [kind   |-> "Wave",
          groups |-> [g \in 1..Len(p.data.groups) |->
                         WaveGroup(p.data.groups[g], now(n + g))]]
    ELSE IF p.pack_type = PackType_synthesize
    THEN [kind |-> "Synthesize", channels |-> BuildChannels(p.data.channels, 1, n)]
    ELSE None

\* How many times process_packet(p) reads the clock: once per group, once per
\* slot that is not skipped.
NowCalls(p) ==
    IF p.pack_type = PackType_wave THEN Len(p.data.groups)
    ELSE IF p.pack_type = PackType_synthesize
    THEN Cardinality({k \in 1..Len(p.data.channels) :
                         p.data.channels[k].type # MachineType_node})
    ELSE 0

-----------------------------------------------------------------------------
(* Frame scanner: parse_mdp01_single_packet *)

\* The offsets the for loop visits: range(len(buf) - 3).
ScanRange(b) == 0..(Len(b) - 4)

\* Mutant: the if tests only buf[i].
MarkerAt_OneByte(b, i) == b[i + 1] = MAGIC

MarkerAt(b, i) == b[i + 1] = MAGIC /\ b[i + 2] = MAGIC

\* The first offset at which the loop's if is true, or -1 when it never is.
FirstMarker(b) ==
    LET hits == {i \in ScanRange(b) : MarkerAt(b, i)}
    IN IF hits = {} THEN -1 ELSE CHOOSE i \in hits : \A j \in hits : i <= j

\* Mutant: the except branch skips one marker byte, not two.
Decoded_SkipOne(b, i, size, p) ==
    IF ~p.ok THEN [rest |-> SliceFrom(b, i + 1), parsed |-> None]
    ELSE [rest |-> SliceFrom(b, i + size), parsed |-> p]

\* Mutant: the success return forgets the marker's offset, buf[size:].
Decoded_IgnoreOffset(b, i, size, p) ==
    IF ~p.ok THEN [rest |-> SliceFrom(b, i + 2), parsed |-> None]
    ELSE [rest |-> SliceFrom(b, size), parsed |-> p]

\* Mutant: the success return keeps the bytes before the marker.
Decoded_KeepPrefix(b, i, size, p) ==
    IF ~p.ok THEN [rest |-> SliceFrom(b, i + 2), parsed |-> None]
    ELSE [rest |-> Slice(b, 0, i) \o SliceFrom(b, i + size), parsed |-> p]

\* Mutant: the success return leaves the decoded frame in the buffer.
Decoded_NoConsume(b, i, size, p) ==
    IF ~p.ok THEN [rest |-> SliceFrom(b, i + 2), parsed |-> None]
    ELSE [rest |-> SliceFrom(b, i), parsed |-> p]

\* The try/except around the decoder and the two returns after it: p is what
\* the constructor gave for buf[i : i + size].
Decoded(b, i, size, p) ==
    IF ~p.ok THEN [rest |-> SliceFrom(b, i + 2), parsed |-> None]
    ELSE [rest |-> SliceFrom(b, i + size), parsed |-> p]

\* Mutant: no length check before decoding; a frame not all there is decoded
\* from the bytes at hand.
Candidate_NoWait(b, i) ==
    Decoded(b, i, b[i + 4], MiniwareMdpM01(Slice(b, i, i + b[i + 4])))

\* Mutant: waiting for the rest of a frame drops the bytes before its marker.
Candidate_DropPrefix(b, i) ==
    LET size == b[i + 4]
    IN IF Len(b) < i + size THEN [rest |-> SliceFrom(b, i), parsed |-> None]
       ELSE Decoded(b, i, size, MiniwareMdpM01(Slice(b, i, i + size)))

\* Mutant: the length check also waits when the frame fits exactly.
Candidate_WaitExact(b, i) ==
    LET size == b[i + 4]
    IN IF Len(b) <= i + size THEN [rest |-> b, parsed |-> None]
       ELSE Decoded(b, i, size, MiniwareMdpM01(Slice(b, i, i + size)))

\* The body of the loop's if, for the marker at offset i.
Candidate(b, i) ==
    LET size == b[i + 4]
    IN IF Len(b) < i + size THEN [rest |-> b, parsed |-> None]
       ELSE Decoded(b, i, size, MiniwareMdpM01(Slice(b, i, i + size)))

\* Mutant: a buffer without a marker is dropped, not kept for the next call.
parse_mdp01_single_packet_Drops(b) ==
    LET i == FirstMarker(b)
    IN IF i < 0 THEN [rest |-> <<>>, parsed |-> None] ELSE Candidate(b, i)

\* parse_mdp01_single_packet(buf): [rest, parsed], the pair it returns.
parse_mdp01_single_packet(b) ==
    LET i == FirstMarker(b)
    IN IF i < 0 THEN [rest |-> b, parsed |-> None] ELSE Candidate(b, i)

-----------------------------------------------------------------------------
(* Stream driver: the while loop of parse_buffer, one iteration per step *)

\* Mutant: the loop has no break; only its condition ends it.
AfterScan_NoBreak(mb, pk, c, r) ==
    IF r.parsed # None /\ Len(r.parsed.packets) # 1
    THEN [memorybuf |-> r.rest, parsed |-> r.parsed, packets |-> pk,
          now_calls |-> c, pc |-> "aborted"]
    ELSE [memorybuf |-> r.rest,
          parsed    |-> r.parsed,
          packets   |-> IF r.parsed # None
                        THEN Append(pk, process_packet(r.parsed.packets[1], c))
                        ELSE pk,
          now_calls |-> IF r.parsed # None
                        THEN c + NowCalls(r.parsed.packets[1])
                        ELSE c,
          pc        |-> "loop"]

\* Mutant: the loop stops as soon as a scan yields no frame.
AfterScan_StopOnNone(mb, pk, c, r) ==
    IF r.parsed # None /\ Len(r.parsed.packets) # 1
    THEN [memorybuf |-> r.rest, parsed |-> r.parsed, packets |-> pk,
          now_calls |-> c, pc |-> "aborted"]
    ELSE [memorybuf |-> r.rest,
          parsed    |-> r.parsed,
          packets   |-> IF r.parsed # None
                        THEN Append(pk, process_packet(r.parsed.packets[1], c))
                        ELSE pk,
          now_calls |-> IF r.parsed # None
                        THEN c + NowCalls(r.parsed.packets[1])
                        ELSE c,
          pc        |-> IF r.parsed = None THEN "ret"
                        ELSE IF Len(r.rest) = Len(mb) THEN "ret" ELSE "loop"]

\* One pass through the loop body on (memorybuf, packets), the clock read c
\* times before: the values of the locals after it and where control goes.
\* The assert on len(parsed.packets) raises out of parse_buffer ("aborted");
\* with asserts compiled out the next line, parsed.packets[0], raises instead.
AfterScan(mb, pk, c, r) ==
    IF r.parsed # None /\ Len(r.parsed.packets) # 1
    THEN [memorybuf |-> r.rest, parsed |-> r.parsed, packets |-> pk,
          now_calls |-> c, pc |-> "aborted"]
    ELSE [memorybuf |-> r.rest,
          parsed    |-> r.parsed,
          packets   |-> IF r.parsed # None
                        THEN Append(pk, process_packet(r.parsed.packets[1], c))
                        ELSE pk,
          now_calls |-> IF r.parsed # None
                        THEN c + NowCalls(r.parsed.packets[1])
                        ELSE c,
          pc        |-> IF Len(r.rest) = Len(mb) THEN "ret" ELSE "loop"]

LoopBody(mb, pk, c) == AfterScan(mb, pk, c, parse_mdp01_single_packet(mb))

\* parse_buffer run to its end from the locals (mb, pk), the clock read c
\* times before: [aborted, packets, rest].
RECURSIVE RunLoop(_, _, _)
\* The loop from the locals n that one pass left.
RunLoopFrom(mb, pk, n) ==
    IF n.pc = "aborted" THEN [aborted |-> TRUE, packets |-> pk, rest |-> mb]
    ELSE IF n.pc = "ret"
    THEN [aborted |-> FALSE, packets |-> n.packets, rest |-> n.memorybuf]
    ELSE RunLoop(n.memorybuf, n.packets, n.now_calls)

RunLoop(mb, pk, c) ==
    IF Len(mb) = 0 THEN [aborted |-> FALSE, packets |-> pk, rest |-> mb]
    ELSE RunLoopFrom(mb, pk, LoopBody(mb, pk, c))

\* parse_buffer(b), called when the clock has been read c times.
parse_buffer(b, c) == RunLoop(b, <<>>, c)

-----------------------------------------------------------------------------
(* Wire format of the inputs: byte strings laid out as the decoder reads     *)
(* them                                                                      *)

HEADER_BYTES == 4

SYNTHESIZE == 17

WAVE == 18

ADDR == 19

SYNTHESIZE_SIZE == HEADER_BYTES + 2 + CHAN_COUNT * CHAN_BYTES

WAVE_SIZE_2 == 126

WAVE_SIZE_4 == 206

U16(v) == <<v % 256, (v \div 256) % 256>>

U32(v) == <<v % 256, (v \div 256) % 256, (v \div 65536) % 256, v \div 16777216>>

Fill(n, v) == [k \in 1..n |-> v]

RECURSIVE Concat(_)
Concat(ss) == IF Len(ss) = 0 THEN <<>> ELSE Head(ss) \o Concat(Tail(ss))

Header(kind, size) == <<MAGIC, MAGIC, kind, size>>

\* One 25-byte channel slot: slot number, the seven magnitudes (5000 mV out,
\* 250 deci-degrees, ...), online, machine type, lock, the status byte,
\* output_on, colour, error, terminator.
ChanBytes(num, type, status) ==
    <<num>> \o U16(5000) \o U16(1000 + num) \o U16(12000) \o U16(500)
            \o U16(5000) \o U16(2000) \o U16(250)
            \o <<1, type, 0, status, 1, 10, 20, 30, 0, 0>>

\* A complete Synthesize frame whose slot k has machine type and status byte
\* slots[k] = <<type, status>>.
SynthFrame(slots) ==
    Header(SYNTHESIZE, SYNTHESIZE_SIZE) \o <<0, 0>>
        \o Concat([k \in 1..CHAN_COUNT |-> ChanBytes(k - 1, slots[k][1], slots[k][2])])

\* One sample group: device tick 1000 + g, then gs (voltage, current) items.
GroupBytes(g, gs) ==
    U32(1000 + g) \o Concat([j \in 1..gs |-> U16(100 * g + j) \o U16(10 * g + j)])

\* A complete Wave frame of the given size byte: ten groups of
\* group_size(size) items, then zero padding up to size bytes.
WaveFrame(size) ==
    LET body == <<1, 0>> \o Concat([g \in 1..GROUP_COUNT |->
                                       GroupBytes(g, group_size(size))])
    IN Header(WAVE, size) \o SubSeq(body \o Fill(size, 0), 1, size - HEADER_BYTES)

\* A complete frame of a kind that has no body decoder.
OpaqueFrame(kind, size) == Header(kind, size) \o Fill(size - HEADER_BYTES, 7)

SynthA == SynthFrame(<<<<1, 2>>, <<0, 0>>, <<3, 1>>, <<2, 3>>, <<0, 0>>, <<0, 0>>>>)

SynthNone == SynthFrame([k \in 1..CHAN_COUNT |-> <<0, 0>>])

Wave2 == WaveFrame(WAVE_SIZE_2)

Wave4 == WaveFrame(WAVE_SIZE_4)

Addr6 == OpaqueFrame(ADDR, 6)

\* Well-formed frames the device sends.
FrameLib == {SynthA, Wave2, Addr6}

\* All byte strings over alphabet of length at most n.
RECURSIVE Strings(_, _)
Strings(alphabet, n) ==
    IF n = 0 THEN {<<>>}
    ELSE LET shorter == Strings(alphabet, n - 1)
         IN shorter \cup {Append(t, a) : t \in shorter, a \in alphabet}

\* All concatenations of 1..n members of lib.
RECURSIVE Concats(_, _)
Concats(lib, n) ==
    IF n = 1 THEN lib
    ELSE LET shorter == Concats(lib, n - 1)
         IN shorter \cup {t \o f : t \in shorter, f \in lib}

MaxFrames == 2

MaxNoise == 5

MaxCalls == 2

\* Trailing bytes too few to hold a frame header.
MaxTrail == HEADER_BYTES - 1

\* Streams of well-formed frames only.
ValidStreams == Concats(FrameLib, MaxFrames) \cup {Wave4, SynthNone}

\* Line noise: marker bytes and small length bytes in any order, and a few
\* headers of the Synthesize kind with lengths that cannot hold its body (one
\* of them with a short frame behind it).
NoiseBytes == {0, HEADER_BYTES, MAGIC}

NoiseStreams ==
    Strings(NoiseBytes, MaxNoise)
        \cup {<<MAGIC, MAGIC, 3, 1, 0>>,
              Header(SYNTHESIZE, 0), Header(SYNTHESIZE, 1) \o <<0>>,
              Header(SYNTHESIZE, HEADER_BYTES) \o <<0>>,
              Header(SYNTHESIZE, HEADER_BYTES) \o Addr6,
              <<0>> \o Header(WAVE, HEADER_BYTES + 2) \o <<1, 0, MAGIC>>}

\* A frame after leading garbage (a spurious marker among it).
JunkLib == {<<MAGIC, MAGIC>>, <<0>>, <<MAGIC>>, <<0, MAGIC, MAGIC>>, <<1, 2, 3, 4, 5>>}

PrefixedStreams == {j \o f : j \in JunkLib, f \in {SynthA, Wave2}}

\* A Synthesize frame and a few bytes of what follows it.
TrailBytes == {0, MAGIC}

TrailedStreams == {SynthA \o t : t \in Strings(TrailBytes, MaxTrail)}

Streams == ValidStreams \cup NoiseStreams \cup PrefixedStreams \cup TrailedStreams

\* A frame of the given kind whose size byte is size: the body cut, or padded
\* with zero bytes, to the size - 4 bytes the size byte announces.
SizedFrame(kind, size, body) ==
    Header(kind, size) \o SubSeq(body \o Fill(size, 0), 1, size - HEADER_BYTES)

\* The payload of a Synthesize frame: slot k carries the slot number nums[k],
\* the machine type types[k] and the status byte status[k].
SynthBody(nums, types, status) ==
    <<0, 0>> \o Concat([k \in 1..CHAN_COUNT |->
                           ChanBytes(nums[k], types[k], status[k])])

\* The size byte of a Wave frame whose ten groups hold no item.
WAVE_SIZE_0 == HEADER_BYTES + 2 + GROUP_COUNT * 4

MaxExtra == 1

MaxTick == 1

\* Size bytes at most MaxExtra away from the sizes the layouts give.
NearSizes(exact) ==
    {n \in 0..255 : \E e \in exact : n - e <= MaxExtra /\ e - n <= MaxExtra}

\* Wave frames of every size byte near 46, 126 and 206.
WaveProbes == {WaveFrame(n) : n \in NearSizes({WAVE_SIZE_0, WAVE_SIZE_2, WAVE_SIZE_4})}

SlotNumbers == <<0, 1, 2, 3, 4, 5>>

\* Synthesize frames of every size byte near 156.
SynthSizeProbes ==
    {SizedFrame(SYNTHESIZE, n,
                SynthBody(SlotNumbers, <<1, 0, 3, 2, 0, 0>>, <<2, 0, 1, 3, 0, 0>>)) :
        n \in NearSizes({SYNTHESIZE_SIZE})}

\* Machine type and status bytes inside and outside the enums' value sets.
EnumBytes == {0, 3, 4}

\* Synthesize frames whose first slot has every pair of those bytes.
EnumProbes ==
    {SizedFrame(SYNTHESIZE, SYNTHESIZE_SIZE,
                SynthBody(SlotNumbers, <<t, 2, 0, 0, 3, 0>>, <<st, 1, 0, 0, 2, 0>>)) :
        t \in EnumBytes, st \in EnumBytes}

\* Which slots are populated, with which machine types.
SlotPatterns ==
    {<<0, 0, 0, 0, 0, 0>>, <<1, 2, 3, 1, 2, 3>>, <<0, 0, 0, 0, 0, 3>>,
     <<3, 0, 0, 0, 0, 0>>, <<0, 1, 0, 3, 0, 2>>}

\* Slot number bytes that are, and that are not, the slots' positions.
SlotNumberings == {SlotNumbers, <<5, 4, 3, 2, 1, 0>>}

SlotProbes ==
    {SizedFrame(SYNTHESIZE, SYNTHESIZE_SIZE, SynthBody(nums, types, <<1, 1, 1, 1, 1, 1>>)) :
        nums \in SlotNumberings, types \in SlotPatterns}

\* One frame per stream, for the claims about the decoder and the builder.
DecodeStreams == WaveProbes \cup SynthSizeProbes \cup EnumProbes \cup SlotProbes

-----------------------------------------------------------------------------
(* The capture loop of miniware-marimo.py around parse_buffer *)

\* What one ser.read() may deliver: the first read any number of the bytes
\* to come, every later read all that is left (nothing, once all is read).
ReadSizes ==
    IF calls = 0 THEN 0..Len(stream)
    ELSE IF calls < MaxCalls THEN {Len(stream) - fed}
    ELSE {}

Init ==
    /\ stream \in Streams
    /\ fed = 0
    /\ reads = <<>>
    /\ buf = <<>>
    /\ out = <<>>
    /\ pc = "idle"
    /\ memorybuf = <<>>
    /\ packets = <<>>
    /\ last_len = 0
    /\ parsed = None
    /\ prev = <<>>
    /\ prev_packets = <<>>
    /\ iters = 0
    /\ frames_sw = 0
    /\ spans = <<>>
    /\ tick_after = 0
    /\ now_calls = 0

\* The capture of one frame, read while the wall clock may advance.
DecodeInit ==
    /\ stream \in DecodeStreams
    /\ fed = 0
    /\ reads = <<>>
    /\ buf = <<>>
    /\ out = <<>>
    /\ pc = "idle"
    /\ memorybuf = <<>>
    /\ packets = <<>>
    /\ last_len = 0
    /\ parsed = None
    /\ prev = <<>>
    /\ prev_packets = <<>>
    /\ iters = 0
    /\ frames_sw = 0
    /\ spans = <<>>
    /\ tick_after \in 0..MaxTick
    /\ now_calls = 0

\* buf += ser.read(); parse_buf() up to the entry of parse_buffer's loop:
\* memorybuf = memoryview(buf); packets = [].
Read(n) ==
    /\ pc = "idle"
    /\ n \in ReadSizes
    /\ fed' = fed + n
    /\ reads' = Append(reads, n)
    /\ buf' = buf \o SubSeq(stream, fed + 1, fed + n)
    /\ memorybuf' = buf'
    /\ packets' = <<>>
    /\ pc' = "loop"
    /\ last_len' = 0
    /\ parsed' = None
    /\ prev' = <<>>
    /\ prev_packets' = <<>>
    /\ iters' = 0
    /\ frames_sw' = 0
    /\ UNCHANGED <<stream, out, spans, tick_after, now_calls>>

\* Whether the scan result parsed holds a Synthesize or a Wave frame.
IsSynthOrWave(p) ==
    IF p = None THEN FALSE
    ELSE \E k \in 1..Len(p.packets) :
             p.packets[k].pack_type \in {PackType_synthesize, PackType_wave}

\* Where in stream the frame lies that a scan of mb cut off, leaving rest:
\* mb holds the last Len(mb) of the bytes delivered, the frame starts at the
\* first marker of mb and ends where rest begins.
FrameSpan(mb, rest) ==
    [lo |-> fed - Len(mb) + FirstMarker(mb), hi |-> fed - Len(rest)]

\* The locals after one pass through the loop body that left n.
Assign(n) ==
    /\ frames_sw' = frames_sw + (IF IsSynthOrWave(n.parsed) THEN 1 ELSE 0)
    /\ spans' = IF Len(n.packets) > Len(packets)
                THEN Append(spans, FrameSpan(memorybuf, n.memorybuf))
                ELSE spans
    /\ last_len' = Len(memorybuf)
    /\ prev' = memorybuf
    /\ prev_packets' = packets
    /\ memorybuf' = n.memorybuf
    /\ parsed' = n.parsed
    /\ packets' = n.packets
    /\ now_calls' = n.now_calls
    /\ pc' = n.pc

\* while len(memorybuf) > 0: one iteration of the loop body.
Iterate ==
    /\ pc = "loop"
    /\ Len(memorybuf) > 0
    /\ Assign(LoopBody(memorybuf, packets, now_calls))
    /\ iters' = iters + 1
    /\ UNCHANGED <<stream, fed, reads, buf, out, tick_after>>

\* The loop has ended (its condition is false, or the break was taken).
LoopEnded == IF pc = "ret" THEN TRUE ELSE pc = "loop" /\ Len(memorybuf) = 0

\* return packets, bytes(memorybuf); then parse_buf: parsed, buf = ... and every
\* returned element is appended to the capture's packets.
Return ==
    /\ LoopEnded
    /\ buf' = memorybuf
    /\ out' = out \o packets
    /\ pc' = "idle"
    /\ UNCHANGED <<stream, fed, reads, memorybuf, packets, last_len, parsed, prev,
                   prev_packets, iters, frames_sw, spans, tick_after, now_calls>>

Next ==
    \/ \E n \in 0..Len(stream) : Read(n)
    \/ Iterate
    \/ Return

Spec == Init /\ [][Next]_vars

DecodeSpec == DecodeInit /\ [][Next]_vars

\* What every step of a running call does to pc and iters: a loop iteration
\* counts one more scan, the return hands control back to the capture loop.
\* Under Next the steps that satisfy it are exactly the Iterate and Return steps.
Progress ==
    \/ /\ pc = "loop"
       /\ Len(memorybuf) > 0
       /\ iters' = iters + 1
       /\ pc' \in {"loop", "ret", "aborted"}
    \/ /\ LoopEnded
       /\ pc' = "idle"
       /\ iters' = iters

\* The interpreter keeps running a call it has started: nothing inside
\* parse_buffer or parse_buf blocks.  The next ser.read() may never come.
FairSpec == Spec /\ WF_<<pc, iters>>(Progress)

-----------------------------------------------------------------------------
(* Vocabulary of the properties *)

\* The offset of the first two adjacent marker bytes anywhere in b, or -1.
FirstPair(b) ==
    LET hits == {i \in 0..(Len(b) - 2) : b[i + 1] = MAGIC /\ b[i + 2] = MAGIC}
    IN IF hits = {} THEN -1 ELSE CHOOSE i \in hits : \A j \in hits : i <= j

\* b holds a first marker together with its declared_length byte.
HasSize(b) == FirstPair(b) >= 0 /\ FirstPair(b) + 3 < Len(b)

DeclaredLength(b) == b[FirstPair(b) + 4]

\* The whole candidate frame of the first marker is in b.
Buffered(b) == HasSize(b) /\ Len(b) >= FirstPair(b) + DeclaredLength(b)

CandidateBytes(b) == Slice(b, FirstPair(b), FirstPair(b) + DeclaredLength(b))

\* The body decoder accepts the candidate frame of b.
Decodes(b) == MiniwareMdpM01(CandidateBytes(b)).ok

\* Inside a parse_buffer call (buf is the call's argument), after a scan.
InCall == pc # "idle"

Scanned == InCall /\ iters > 0

-----------------------------------------------------------------------------
(* Properties *)

\* C1: chunking invariance.  A stream of well-formed frames split at any offset
\* and fed through two parse_buffer calls (the second on the first remainder
\* plus the rest) gives the same records in the same order, and the same final
\* remainder, as one call on the whole stream.
C1_ChunkingInvariance ==
    (pc = "idle" /\ calls = 2 /\ stream \in ValidStreams) =>
        LET whole == parse_buffer(stream, 0)
        IN ~whole.aborted /\ out = whole.packets /\ buf = whole.rest

\* A two-frame stream cut inside its second frame, both records delivered.
C1_Witness ==
    /\ pc = "idle"
    /\ calls = 2
    /\ stream = SynthA \o Wave2
    /\ reads[1] = SYNTHESIZE_SIZE + 44
    /\ Len(out) = 2
    /\ buf = <<>>

SpuriousStreams == {<<MAGIC, MAGIC>> \o f : f \in {SynthA, Wave2}}

\* C2: resync.  A spurious two-byte marker immediately followed by one complete
\* well-formed Synthesize or Wave frame, given to one parse_buffer call, yields
\* exactly one record, that of the frame, and no error.
C2_ResyncYieldsFrame ==
    (stream \in SpuriousStreams /\ calls = 1 /\ buf = stream) =>
        /\ pc # "aborted"
        /\ LoopEnded =>
              /\ Len(packets) = 1
              /\ packets[1] = process_packet(Packet(SliceFrom(stream, 2), 0), 0)

\* C3: parse_buffer never aborts: no exception or assertion failure escapes it,
\* whatever the bytes.
C3_NeverAborts == pc # "aborted"

\* C4: what parse_buffer returns holds only Synthesize and Wave records, never
\* None, and as many of them as Synthesize and Wave frames were consumed.
C4_OnlyRecords ==
    LoopEnded =>
        /\ \A k \in 1..Len(packets) : packets[k].kind \in {"Synthesize", "Wave"}
        /\ Len(packets) = frames_sw

\* C5: false-positive resync.  When the candidate frame of the first marker, at
\* offset i, is fully buffered and its decoding fails, the scanner yields no
\* frame and returns exactly buffer[i+2:]; parse_buffer on 5A 5A 03 01 00
\* returns no record and the remainder 03 01 00.
C5_FalsePositiveResync ==
    /\ (Scanned /\ Buffered(prev) /\ ~Decodes(prev)) =>
          /\ parsed = None
          /\ packets = prev_packets
          /\ memorybuf = SliceFrom(prev, FirstPair(prev) + 2)
    /\ (LoopEnded /\ buf = <<MAGIC, MAGIC, 3, 1, 0>>) =>
          /\ packets = <<>>
          /\ memorybuf = <<3, 1, 0>>

\* The example buffer, resynchronised and returned.
C5_Witness ==
    /\ LoopEnded
    /\ buf = <<MAGIC, MAGIC, 3, 1, 0>>
    /\ iters = 2
    /\ memorybuf = <<3, 1, 0>>

\* C6: a candidate frame whose declared_length byte is 0, 1, 2 or 3 is a decode
\* failure: no frame, no record, and the scanner resyncs to buffer[i+2:].
C6_ShortLengthIsFailure ==
    (Scanned /\ HasSize(prev) /\ DeclaredLength(prev) < HEADER_BYTES) =>
        /\ pc # "aborted"
        /\ parsed = None
        /\ packets = prev_packets
        /\ memorybuf = SliceFrom(prev, FirstPair(prev) + 2)

\* C7: on a buffer with no two adjacent marker bytes (the empty one too)
\* parse_buffer returns no record and the whole buffer as remainder.
C7_NoMarkerUnchanged ==
    (InCall /\ FirstPair(buf) < 0) =>
        /\ pc # "aborted"
        /\ LoopEnded => packets = <<>> /\ memorybuf = buf

\* A buffer long enough to be scanned, with a lone marker byte in it.
C7_Witness ==
    /\ LoopEnded
    /\ FirstPair(buf) < 0
    /\ Len(buf) >= HEADER_BYTES
    /\ buf[1] = MAGIC
    /\ iters = 1
    /\ memorybuf = buf

\* C8: incomplete-frame wait.  When the buffer is shorter than the first
\* marker's offset plus its declared length, the scanner yields no frame and
\* returns the buffer unchanged, the bytes before the marker too, and
\* parse_buffer stops there with no further record: no later marker is tried.
C8_IncompleteWait ==
    (Scanned /\ HasSize(prev) /\ Len(prev) < FirstPair(prev) + DeclaredLength(prev)) =>
        /\ parsed = None
        /\ memorybuf = prev
        /\ packets = prev_packets
        /\ pc = "ret"

\* A byte of garbage, a marker whose frame is not all there, and a later marker.
C8_Witness ==
    /\ Scanned
    /\ HasSize(prev)
    /\ FirstPair(prev) = 1
    /\ Len(prev) < FirstPair(prev) + DeclaredLength(prev)
    /\ FirstPair(SliceFrom(prev, 2)) >= 0
    /\ memorybuf = prev

\* C9: successful consumption.  When the candidate frame of the first marker,
\* at offset i, is fully buffered and decodes, the scanner yields that frame
\* and returns exactly buffer[i+declared_length:].
C9_FrameConsumed ==
    (Scanned /\ Buffered(prev) /\ Decodes(prev)) =>
        /\ parsed = MiniwareMdpM01(CandidateBytes(prev))
        /\ memorybuf = SliceFrom(prev, FirstPair(prev) + DeclaredLength(prev))
        /\ DeclaredLength(prev) >= HEADER_BYTES =>
              /\ Len(parsed.packets) = 1
              /\ parsed.packets[1].size = DeclaredLength(prev)
              /\ Len(prev) - Len(memorybuf) = FirstPair(prev) + DeclaredLength(prev)

\* A Synthesize frame behind five bytes of garbage, consumed with them.
C9_Witness ==
    /\ Scanned
    /\ FirstPair(prev) = 5
    /\ Buffered(prev)
    /\ Decodes(prev)
    /\ parsed # None
    /\ parsed.packets[1].pack_type = PackType_synthesize
    /\ Len(memorybuf) = Len(prev) - 5 - SYNTHESIZE_SIZE

\* C10: a buffer of one well-formed Synthesize frame followed by 0..3 bytes of
\* any value gives exactly one Synthesize record and those bytes as remainder.
C10_FrameThenShortTrail ==
    (/\ InCall
     /\ Len(buf) >= SYNTHESIZE_SIZE
     /\ Len(buf) - SYNTHESIZE_SIZE < HEADER_BYTES
     /\ Slice(buf, 0, HEADER_BYTES) = Header(SYNTHESIZE, SYNTHESIZE_SIZE)) =>
        /\ pc # "aborted"
        /\ LoopEnded =>
              /\ Len(packets) = 1
              /\ packets[1].kind = "Synthesize"
              /\ (Slice(buf, 0, SYNTHESIZE_SIZE) = SynthA =>
                    [k \in 1..Len(packets[1].channels) |->
                        packets[1].channels[k].channel_index] = <<0, 2, 3>>)
              /\ memorybuf = SliceFrom(buf, SYNTHESIZE_SIZE)

\* The frame followed by a marker and one more byte.
C10_Witness ==
    /\ LoopEnded
    /\ buf = SynthA \o <<MAGIC, MAGIC, 0>>
    /\ Len(packets) = 1
    /\ memorybuf = <<MAGIC, MAGIC, 0>>

\* C11: forward progress and termination.  Every parse_buffer call ends (it
\* returns, or the assert raises out of it); after every loop iteration that
\* leaves the loop running the buffer is strictly shorter than it was, an
\* iteration that returns a remainder as long as its input ends the loop at
\* once, and the scanner is invoked at most len(buf) + 1 times in a call.
C11_ForwardProgress ==
    /\ [](Scanned => /\ (pc = "loop" => Len(memorybuf) < last_len)
                     /\ (Len(memorybuf) = last_len => pc # "loop")
                     /\ last_len = Len(prev)
                     /\ iters <= Len(buf) + 1)
    /\ [](InCall => <>(pc \in {"idle", "aborted"}))

\* A call that returned after two scans: the first consumed a frame, the
\* second gave back its input as it was.
C11_Witness ==
    /\ pc = "idle"
    /\ calls = 1
    /\ iters = 2
    /\ Len(out) = 1
    /\ Len(buf) > 0
    /\ Len(buf) < fed
    /\ last_len = Len(buf)

\* The remainder the call before handed back: the argument of the running
\* call without the bytes read for it.
Carried == SubSeq(buf, 1, Len(buf) - reads[calls])

\* b holds a first marker and fewer bytes than the marker's offset plus its
\* declared length: a scan of b waits.
Waits(b) == HasSize(b) /\ Len(b) < FirstPair(b) + DeclaredLength(b)

\* C19: the incomplete-frame wait does not persist.  When the call before
\* stopped on a first marker at offset i whose declared length L was longer
\* than the bytes buffered, and the buffer of this call holds at least i + L
\* bytes, the buffer is not returned unchanged: the call consumes at least
\* i + 2 bytes (the frame, or the two marker bytes of a resync).
C19_WaitDoesNotPersist ==
    (/\ Scanned
     /\ calls >= 2
     /\ Waits(Carried)
     /\ Len(buf) >= FirstPair(Carried) + DeclaredLength(Carried)) =>
        /\ memorybuf # buf
        /\ Len(buf) - Len(memorybuf) >= FirstPair(Carried) + 2
        /\ iters = 1 =>
              \/ parsed = None
                 /\ memorybuf = SliceFrom(buf, FirstPair(Carried) + 2)
              \/ parsed # None
                 /\ memorybuf
                      = SliceFrom(buf, FirstPair(Carried) + DeclaredLength(Carried))

\* A marker behind one byte of garbage, its 6-byte frame cut after the size
\* byte; the rest arrives, the frame does not decode, the scanner resyncs.
C19_Witness ==
    /\ Scanned
    /\ calls = 2
    /\ Waits(Carried)
    /\ FirstPair(Carried) = 1
    /\ Len(buf) >= FirstPair(Carried) + DeclaredLength(Carried)
    /\ iters = 1
    /\ parsed = None
    /\ Len(buf) - Len(memorybuf) = 3

\* C20: the remainder parse_buffer returns is a fixed point of parse_buffer:
\* called on the remainder alone it returns no record and the remainder again.
C20_RemainderFixedPoint ==
    LoopEnded =>
        /\ ~parse_buffer(memorybuf, now_calls).aborted
        /\ parse_buffer(memorybuf, now_calls).packets = <<>>
        /\ parse_buffer(memorybuf, now_calls).rest = memorybuf

\* A call that consumed a frame and returns the start of the next one.
C20_Witness ==
    /\ LoopEnded
    /\ iters = 2
    /\ Len(packets) = 1
    /\ Len(memorybuf) > HEADER_BYTES
    /\ FirstPair(memorybuf) = 0
    /\ parse_buffer(memorybuf, now_calls).rest = memorybuf

-----------------------------------------------------------------------------
(* Vocabulary of the properties about one decoded frame *)

\* Byte k (0-based) of the candidate frame of the buffer last scanned, and the
\* little-endian numbers that start there.
FrameByte(k) == prev[FirstPair(prev) + k + 1]

FrameU16(k) == FrameByte(k) + 256 * FrameByte(k + 1)

FrameU32(k) == FrameU16(k) + 65536 * FrameU16(k + 2)

\* The candidate frame of the buffer last scanned is all there and of this kind.
ScannedFrame(kind) == Scanned /\ Buffered(prev) /\ FrameByte(2) = kind

\* The last scan appended an element to packets; LastRecord is that element.
Emitted == Scanned /\ pc # "aborted" /\ Len(packets) = Len(prev_packets) + 1

LastRecord == packets[Len(packets)]

\* The last scan took the resync path: no frame, buffer[i+2:], nothing appended.
Resynced ==
    /\ parsed = None
    /\ packets = prev_packets
    /\ memorybuf = SliceFrom(prev, FirstPair(prev) + 2)

\* Offset of slot k (0-based) in a Synthesize frame, of group g (0-based) in a
\* Wave frame of gs items per group.
SlotAt(k) == HEADER_BYTES + 2 + CHAN_BYTES * k

GroupAt(g, gs) == HEADER_BYTES + 2 + (4 + 4 * gs) * g

\* The record just appended is a Wave of ten groups of gs items, each the
\* frame's bytes in their order.
WaveOfItems(gs) ==
    /\ Emitted
    /\ LastRecord # None
    /\ LastRecord.kind = "Wave"
    /\ Len(LastRecord.groups) = GROUP_COUNT
    /\ \A g \in 1..GROUP_COUNT :
          /\ LastRecord.groups[g].timestamp = FrameU32(GroupAt(g - 1, gs))
          /\ Len(LastRecord.groups[g].items) = gs
          /\ \A j \in 1..gs :
                /\ LastRecord.groups[g].items[j].voltage
                      = [num |-> FrameU16(GroupAt(g - 1, gs) + 4 * j), den |-> 1000]
                /\ LastRecord.groups[g].items[j].current
                      = [num |-> FrameU16(GroupAt(g - 1, gs) + 4 * j + 2), den |-> 1000]

\* C12: a fully buffered Wave frame of declared_length 126 gives a Wave record
\* of exactly 10 groups of exactly 2 items, one of declared_length 206 exactly
\* 10 groups of exactly 4 items, groups and items in the order of the bytes.
C12_WaveGroupSizes ==
    ScannedFrame(WAVE) =>
        /\ DeclaredLength(prev) = WAVE_SIZE_2 => WaveOfItems(2)
        /\ DeclaredLength(prev) = WAVE_SIZE_4 => WaveOfItems(4)

\* A 206-byte Wave frame turned into its record.
C12_Witness ==
    /\ ScannedFrame(WAVE)
    /\ DeclaredLength(prev) = WAVE_SIZE_4
    /\ Emitted
    /\ Len(LastRecord.groups[GROUP_COUNT].items) = 4
    /\ LastRecord.groups[2].items[3].voltage = [num |-> 203, den |-> 1000]

\* C13: a Wave frame whose declared_length is neither 126 nor 206 is never
\* accepted as a normal Wave record of ten groups without items.
C13_AmbiguousGroupSize ==
    (ScannedFrame(WAVE) /\ DeclaredLength(prev) \notin {WAVE_SIZE_2, WAVE_SIZE_4}) =>
        ~WaveOfItems(0)

\* The declared_length that the layout of the frame's kind gives.
ExactLength(kind, size) ==
    IF kind = SYNTHESIZE THEN size = SYNTHESIZE_SIZE
    ELSE size = HEADER_BYTES + 2 + GROUP_COUNT * (4 + 4 * group_size(size))

\* C14: length strictness.  A Synthesize or Wave candidate is decoded only
\* when its payload has exactly the length of its layout; with a shorter or a
\* longer payload there is no frame, no record, and the scanner resyncs to
\* buffer[i+2:].
C14_LengthStrict ==
    (ScannedFrame(SYNTHESIZE) \/ ScannedFrame(WAVE)) =>
        /\ parsed # None => ExactLength(FrameByte(2), DeclaredLength(prev))
        /\ ~ExactLength(FrameByte(2), DeclaredLength(prev)) => Resynced

\* Some slot of the Synthesize candidate has a machine type byte, or a status
\* byte, outside the enum's values.
BadEnumByte ==
    \E k \in 0..(CHAN_COUNT - 1) :
        \/ FrameByte(SlotAt(k) + 16) \notin MachineTypeValues
        \/ FrameByte(SlotAt(k) + 18) \notin 0..3

\* C15: enum strictness.  A Synthesize candidate with a machine type byte or a
\* status byte outside {0,1,2,3} in any slot is a decode failure: no record,
\* and the scanner resyncs to buffer[i+2:].
C15_EnumStrict ==
    (/\ ScannedFrame(SYNTHESIZE)
     /\ DeclaredLength(prev) = SYNTHESIZE_SIZE
     /\ BadEnumByte) => Resynced

\* The timestamp_received values of the record's channels, or groups.
Stamps(rec) ==
    IF rec.kind = "Wave"
    THEN {rec.groups[g].timestamp_received : g \in 1..Len(rec.groups)}
    ELSE {rec.channels[k].timestamp_received : k \in 1..Len(rec.channels)}

\* C16: all channels of one Synthesize record, and all groups of one Wave
\* record, carry the same timestamp_received, whatever the clock does while
\* the record is built.
C16_OneTimestampPerFrame ==
    (Emitted /\ LastRecord # None) => Cardinality(Stamps(LastRecord)) <= 1

\* The 0-based positions of the slots of the Synthesize frame whose machine
\* type byte is not 0.
Populated == {k \in 0..(CHAN_COUNT - 1) : FrameByte(SlotAt(k) + 16) # 0}

\* C17: the channels of a Synthesize record are exactly the slots whose machine
\* type is not 0, in slot order, each with channel_index its 0-based position
\* among the six slots (not its slot number byte) and the slot's own values;
\* the indices increase strictly within 0..5; with no slot populated the record
\* is a Synthesize with no channel, not None.
C17_ChannelsArePopulatedSlots ==
    (ScannedFrame(SYNTHESIZE) /\ parsed # None) =>
        /\ Emitted
        /\ LastRecord # None
        /\ LastRecord.kind = "Synthesize"
        /\ Len(LastRecord.channels) = Cardinality(Populated)
        /\ {LastRecord.channels[j].channel_index : j \in 1..Len(LastRecord.channels)}
              = Populated
        /\ \A j \in 1..(Len(LastRecord.channels) - 1) :
              LastRecord.channels[j].channel_index
                  < LastRecord.channels[j + 1].channel_index
        /\ \A j \in 1..Len(LastRecord.channels) :
              /\ LastRecord.channels[j].machine_type.v
                    = FrameByte(SlotAt(LastRecord.channels[j].channel_index) + 16)
              /\ LastRecord.channels[j].out_current
                    = [num |-> FrameU16(SlotAt(LastRecord.channels[j].channel_index) + 3),
                       den |-> 1000]

\* Slots 1, 3 and 5 populated, their slot number bytes 4, 2 and 0.
C17_Witness ==
    /\ ScannedFrame(SYNTHESIZE)
    /\ Emitted
    /\ FrameByte(SlotAt(1)) = 4
    /\ Populated = {1, 3, 5}
    /\ [j \in 1..Len(LastRecord.channels) |-> LastRecord.channels[j].channel_index]
          = <<1, 3, 5>>

\* C18: in every decoded slot and every Channel record exactly one of the two
\* status fields is present: the load-mode status if and only if the machine
\* type is L1060 (3), the supply-mode status if and only if it is not; and
\* every slot takes 25 bytes, whichever it has.
C18_ExactlyOneStatus ==
    (ScannedFrame(SYNTHESIZE) /\ parsed # None) =>
        /\ \A k \in 1..CHAN_COUNT :
              /\ parsed.packets[1].data.channels[k].has_status_load
                    = (FrameByte(SlotAt(k - 1) + 16) = 3)
              /\ parsed.packets[1].data.channels[k].has_status_psu
                    = (FrameByte(SlotAt(k - 1) + 16) # 3)
              /\ parsed.packets[1].data.channels[k].num = FrameByte(SlotAt(k - 1))
              /\ parsed.packets[1].data.channels[k].error
                    = FrameByte(SlotAt(k - 1) + CHAN_BYTES - 2)
              /\ parsed.packets[1].data.channels[k].end
                    = <<FrameByte(SlotAt(k - 1) + CHAN_BYTES - 1)>>
        /\ \A j \in 1..Len(LastRecord.channels) :
              /\ (LastRecord.channels[j].status_load # None)
                    = (FrameByte(SlotAt(LastRecord.channels[j].channel_index) + 16) = 3)
              /\ (LastRecord.channels[j].status_psu # None)
                    = (FrameByte(SlotAt(LastRecord.channels[j].channel_index) + 16) # 3)

\* A record with a channel of each kind: an L1060 load and a supply.
C18_Witness ==
    /\ ScannedFrame(SYNTHESIZE)
    /\ Emitted
    /\ \E a, b \in 1..Len(LastRecord.channels) :
          /\ LastRecord.channels[a].status_load = EnumMember(1)
          /\ LastRecord.channels[a].status_psu = None
          /\ LastRecord.channels[b].status_psu = EnumMember(1)
          /\ LastRecord.channels[b].status_load = None

-----------------------------------------------------------------------------
(* Vocabulary of the properties about the bytes of the stream *)

\* t is the last Len(t) bytes of b, as they are and in their order.
IsSuffix(t, b) == Len(t) <= Len(b) /\ t = SubSeq(b, Len(b) - Len(t) + 1, Len(b))

\* The bytes ser.read() has delivered so far.
Delivered == SubSeq(stream, 1, fed)

\* C21: the remainder is a suffix of the input.  After every scanner step the
\* remainder is no longer than the buffer scanned and is its trailing bytes
\* unaltered; so it is of the buffer parse_buffer was called on, which itself
\* is the previous remainder plus the bytes read; and no step inside a call
\* changes the caller's buffer.
C21_RemainderIsSuffix ==
    /\ [](Scanned => /\ Len(memorybuf) <= Len(prev)
                     /\ IsSuffix(memorybuf, prev)
                     /\ IsSuffix(memorybuf, buf))
    /\ [](InCall => /\ IsSuffix(buf, Delivered)
                    /\ IsSuffix(Carried, SubSeq(stream, 1, fed - reads[calls]))
                    /\ buf = Carried
                            \o SubSeq(stream, fed - reads[calls] + 1, fed))
    /\ [][(InCall /\ pc' # "idle") => buf' = buf]_vars

\* A frame found behind a byte of garbage and consumed with it, bytes left.
C21_Witness ==
    /\ Scanned
    /\ FirstPair(prev) = 1
    /\ parsed # None
    /\ Len(memorybuf) > 0
    /\ Len(memorybuf) < Len(prev)
    /\ IsSuffix(memorybuf, buf)

\* Every element appended to packets since the capture began, in order: those
\* handed back by the calls that returned, then those of the running call.
Records == IF pc = "idle" THEN out ELSE out \o packets

\* The bytes of stream in the range sp.
SpanBytes(sp) == SubSeq(stream, sp.lo + 1, sp.hi)

\* C22: over any sequence of calls fed with consecutive chunks of one stream,
\* every emitted element is the record of a frame that lies in the stream (a
\* marker, and as many bytes as its size byte says, all delivered), the frames
\* of different elements share no byte, and the elements come in increasing
\* order of their frames' start offsets.
C22_FramesDisjointInOrder ==
    /\ Len(spans) = Len(Records)
    /\ \A k \in 1..Len(spans) :
          /\ 0 <= spans[k].lo
          /\ spans[k].lo + HEADER_BYTES <= spans[k].hi
          /\ spans[k].hi <= fed
          /\ stream[spans[k].lo + 1] = MAGIC
          /\ stream[spans[k].lo + 2] = MAGIC
          /\ stream[spans[k].lo + 4] = spans[k].hi - spans[k].lo
          /\ Records[k] = process_packet(Packet(SpanBytes(spans[k]), 0), 0)
    /\ \A k \in 1..(Len(spans) - 1) :
          /\ spans[k].lo < spans[k + 1].lo
          /\ spans[k].hi <= spans[k + 1].lo

\* Two frames read in two chunks, the cut inside the first frame: one record
\* for each, the second frame starting where the first ends.
C22_Witness ==
    /\ pc = "idle"
    /\ calls = 2
    /\ stream = Wave2 \o SynthA
    /\ reads[1] = 100
    /\ Len(out) = 2
    /\ spans = <<[lo |-> 0, hi |-> WAVE_SIZE_2],
                 [lo |-> WAVE_SIZE_2, hi |-> WAVE_SIZE_2 + SYNTHESIZE_SIZE]>>

=============================================================================
